---- MODULE Spec2Model ----
(***************************************************************************)
(* A model of pipeline.py: the staged batch pipeline of main() (ingest,    *)
(* bronze snapshot, data-quality report, lookup parsing, transformation,   *)
(* silver snapshot, summaries) and the functions each stage calls.         *)
(*                                                                         *)
(* Text is a sequence of one-character strings, so that strip, upper,      *)
(* split, int() and the column renaming are computed character by          *)
(* character.  A cell of a DataFrame is NA, a text or an integer.  A       *)
(* DataFrame is [columns |-> sequence of column names, rows |-> sequence   *)
(* of rows], a row being a function from column name to cell.              *)
(***************************************************************************)
EXTENDS Integers, Sequences, FiniteSets

VARIABLES pc, main_csv, lookup_csv, df_raw, ingestion_report, dq_report, dfs, df_silver, df_again, summaries, written, error

vars == <<pc, main_csv, lookup_csv, df_raw, ingestion_report, dq_report, dfs, df_silver, df_again, summaries, written, error>>

---------------------------------------------------------------------------
\* Bounds of the model

\* data lines of the encounter file
MaxRows == 2

\* non-blank segments of the lookup file
MaxBlocks == 4

---------------------------------------------------------------------------
\* Characters and text

Digits == <<"0","1","2","3","4","5","6","7","8","9">>

Lowers == <<"a","b","c","d","e","f","g","h","i","j","k","l","m","n","o","p","q","r","s","t","u","v","w","x","y","z">>

Uppers == <<"A","B","C","D","E","F","G","H","I","J","K","L","M","N","O","P","Q","R","S","T","U","V","W","X","Y","Z">>

\* the characters of the model in code-point order (Python compares str by code point)
CodePoints == <<" ","(",")","+",",","-",".","/">> \o Digits \o <<"<",">","?">> \o Uppers \o <<"[","_">> \o Lowers

\* body with x bound to the value v: a local name for an intermediate result
With(v, Body(_)) == Body(v)

Range(s) == {s[i] : i \in 1..Len(s)}

IndexOf(seq, c) == CHOOSE i \in 1..Len(seq) : seq[i] = c

SetMin(S) == CHOOSE x \in S : \A y \in S : x <= y

SetMax(S) == CHOOSE x \in S : \A y \in S : x >= y

\* str.strip(): drop leading and trailing whitespace
Strip(s) == With({i \in 1..Len(s) : s[i] # " "}, LAMBDA keep : IF keep = {} THEN <<>> ELSE SubSeq(s, SetMin(keep), SetMax(keep)))

UpperChar(c) == IF c \in Range(Lowers) THEN Uppers[IndexOf(Lowers, c)] ELSE c

LowerChar(c) == IF c \in Range(Uppers) THEN Lowers[IndexOf(Uppers, c)] ELSE c

\* str.upper()
Upper(s) == [i \in 1..Len(s) |-> UpperChar(s[i])]

\* str.lower()
Lower(s) == [i \in 1..Len(s) |-> LowerChar(s[i])]

\* str.replace(old, new) for one-character old and new
ReplaceChar(s, old, new) == [i \in 1..Len(s) |-> IF s[i] = old THEN new ELSE s[i]]

\* str.startswith(prefix)
StartsWith(s, prefix) == Len(s) >= Len(prefix) /\ SubSeq(s, 1, Len(prefix)) = prefix

\* str.split(sep) for a one-character sep: one more part than there are separators
RECURSIVE Split(_, _)
Split(s, sep) == With({i \in 1..Len(s) : s[i] = sep}, LAMBDA at : IF at = {} THEN <<s>> ELSE With(SetMin(at), LAMBDA k : <<SubSeq(s, 1, k - 1)>> \o Split(SubSeq(s, k + 1, Len(s)), sep)))

\* "sep".join(parts)
RECURSIVE Join(_, _)
Join(parts, sep) == IF parts = <<>> THEN <<>> ELSE IF Len(parts) = 1 THEN parts[1] ELSE parts[1] \o sep \o Join(Tail(parts), sep)

IsDigits(s) == s # <<>> /\ \A i \in 1..Len(s) : s[i] \in Range(Digits)

RECURSIVE DigitsValue(_)
DigitsValue(s) == IF s = <<>> THEN 0 ELSE 10 * DigitsValue(SubSeq(s, 1, Len(s) - 1)) + (IndexOf(Digits, s[Len(s)]) - 1)

\* Python's str ordering: by code point, a proper prefix first
RECURSIVE TextLess(_, _)
TextLess(a, b) == IF a = <<>> THEN b # <<>> ELSE IF b = <<>> THEN FALSE ELSE IF a[1] = b[1] THEN TextLess(Tail(a), Tail(b)) ELSE IndexOf(CodePoints, a[1]) < IndexOf(CodePoints, b[1])

\* int(text): surrounding whitespace and one sign are accepted, then digits only;
\* anything else is a ValueError (ok = FALSE)
Signed(s) == s # <<>> /\ s[1] \in {"+", "-"}

PyInt(text) == With(Strip(text), LAMBDA s : With(IF Signed(s) THEN Tail(s) ELSE s, LAMBDA body : IF IsDigits(body) THEN [ok |-> TRUE, v |-> IF s[1] = "-" THEN 0 - DigitsValue(body) ELSE DigitsValue(body)] ELSE [ok |-> FALSE, v |-> 0]))

---------------------------------------------------------------------------
\* Cells

NA == [t |-> "na", s |-> <<>>, n |-> 0]

Str(text) == [t |-> "str", s |-> text, n |-> 0]

IntCell(k) == [t |-> "int", s |-> <<>>, n |-> k]

\* pd.isna / Series.isna
isna(cell) == cell.t = "na"

\* Series.str.strip() / .str.upper(): missing stays missing
str_strip(cell) == IF isna(cell) THEN NA ELSE Str(Strip(cell.s))

str_upper(cell) == IF isna(cell) THEN NA ELSE Str(Upper(cell.s))

\* Series.map(mapping) / a dict lookup: mapping is a set of <<key text, cell>> pairs,
\* a value that is not a key (and a missing value) maps to missing
MapCell(cell, mapping) == With({p \in mapping : cell.t = "str" /\ p[1] = cell.s}, LAMBDA hit : IF hit = {} THEN NA ELSE (CHOOSE p \in hit : TRUE)[2])

\* Series.replace(mapping): a value that is a key is replaced, any other is kept
ReplaceCell(cell, mapping) == With({p \in mapping : cell.t = "str" /\ p[1] = cell.s}, LAMBDA hit : IF hit = {} THEN cell ELSE (CHOOSE p \in hit : TRUE)[2])

---------------------------------------------------------------------------
\* DataFrames

None == [columns |-> <<>>, rows |-> <<>>, none |-> TRUE]

Frame(columns, rows) == [columns |-> columns, rows |-> rows, none |-> FALSE]

\* col in df.columns
HasCol(df, col) == col \in Range(df.columns)

\* df[col] = values (one cell per row): a new column goes last, an old one keeps its place
SetCol(df, col, values) == Frame(IF HasCol(df, col) THEN df.columns ELSE Append(df.columns, col), [i \in 1..Len(df.rows) |-> [c \in Range(df.columns) \cup {col} |-> IF c = col THEN values[i] ELSE df.rows[i][c]]])

\* df[col]
Col(df, col) == [i \in 1..Len(df.rows) |-> df.rows[i][col]]

RECURSIVE SeqSum(_)
SeqSum(s) == IF s = <<>> THEN 0 ELSE s[1] + SeqSum(Tail(s))

RECURSIVE Flatten(_)
Flatten(ss) == IF ss = <<>> THEN <<>> ELSE ss[1] \o Flatten(Tail(ss))

\* the indices 1..n that satisfy Keep, in order
SelectIdx(n, Keep(_)) == LET RECURSIVE go(_) go(i) == IF i > n THEN <<>> ELSE (IF Keep(i) THEN <<i>> ELSE <<>>) \o go(i + 1) IN go(1)

---------------------------------------------------------------------------
\* Optional values (None or a value) and rationals (a mean is sum / count)

Nothing == [some |-> FALSE, v |-> 0]

Some(v) == [some |-> TRUE, v |-> v]

\* num / den; den = 0 is NaN (the mean of no values)
Ratio(num, den) == [num |-> num, den |-> den]

---------------------------------------------------------------------------
\* Reading delimited text (pd.read_csv with dtype=str)

\* the strings pd.read_csv reads as missing by default, and those ingestion adds
DefaultNaValues == {<<>>, <<"N","A">>, <<"N","a","N">>, <<"n","a","n">>, <<"n","u","l","l">>, <<"N","U","L","L">>, <<"N","/","A">>, <<"n","/","a">>}

IngestNaValues == {<<"?">>, <<"N","A">>, <<"N","a","N">>, <<"n","u","l","l">>}

\* One record of a block of text: the header names the columns, an empty line is
\* skipped, a short line is padded with missing values, a field that is an NA string
\* is missing.  A line with more fields than the header is a bad line.
CsvRow(header, line, na_values) == With(Split(line, ","), LAMBDA fields : [c \in Range(header) |-> With(IndexOf(header, c), LAMBDA k : IF k > Len(fields) \/ fields[k] \in na_values THEN NA ELSE Str(fields[k]))])

IsBadLine(header, line) == Len(Split(line, ",")) > Len(header)

\* pd.read_csv(text, dtype=str, na_values, on_bad_lines): err is "" when the table was read
ReadTable(lines, data, header, na_values, skip_bad) == With(SelectIdx(Len(data) - 1, LAMBDA j : ~IsBadLine(header, lines[data[j + 1]])), LAMBDA good : IF Len(good) < Len(data) - 1 /\ ~skip_bad THEN [err |-> "ParserError", df |-> None] ELSE [err |-> "", df |-> Frame(header, [j \in 1..Len(good) |-> CsvRow(header, lines[data[good[j] + 1]], na_values)])])

read_csv(lines, na_values, skip_bad) == With(SelectIdx(Len(lines), LAMBDA i : lines[i] # <<>>), LAMBDA data : IF data = <<>> THEN [err |-> "EmptyDataError", df |-> None] ELSE ReadTable(lines, data, Split(lines[data[1]], ","), na_values, skip_bad))

\* count_data_lines: every line of the file but the header
count_data_lines(lines) == Len(lines) - 1

\* ingest_main_encounters: the row set and the ingestion summary
IngestionSummary(total_lines, df) == [rows_loaded |-> Len(df.rows), columns_loaded |-> Len(df.columns), rows_in_file |-> total_lines, rows_rejected_estimated |-> IF total_lines - Len(df.rows) > 0 THEN total_lines - Len(df.rows) ELSE 0, column_names |-> df.columns]

ingest_main_encounters(lines) == With(read_csv(lines, DefaultNaValues \cup IngestNaValues, TRUE), LAMBDA r : IF r.err # "" THEN [err |-> r.err, df |-> None, summary |-> Nothing] ELSE [err |-> "", df |-> r.df, summary |-> Some(IngestionSummary(count_data_lines(lines), r.df))])

---------------------------------------------------------------------------
\* parse_lookup_blocks

\* a separator line: blank, or a lone delimiter
IsSeparatorLine(line) == Strip(line) \in {<<>>, <<",">>}

\* the contiguous runs of lines between separator lines, each a list of lines
RECURSIVE SplitBlocks(_, _)
SplitBlocks(lines, current) == IF lines = <<>> THEN (IF current # <<>> THEN <<current>> ELSE <<>>) ELSE IF IsSeparatorLine(lines[1]) THEN (IF current # <<>> THEN <<current>> ELSE <<>>) \o SplitBlocks(Tail(lines), <<>>) ELSE SplitBlocks(Tail(lines), Append(current, lines[1]))

LookupBlocks(lines) == SplitBlocks(lines, <<>>)

\* What the function does with the blocks it found: each block is read as a table, and
\* the list of tables is unpacked into three names.  A block count other than three is
\* only logged (warned); the ValueError comes from the unpacking.
UnpackTables(blocks) == With([i \in 1..Len(blocks) |-> read_csv(blocks[i], DefaultNaValues, FALSE)], LAMBDA parsed : With({i \in 1..Len(blocks) : parsed[i].err # ""}, LAMBDA bad : IF bad # {} THEN [err |-> parsed[SetMin(bad)].err, raised_at |-> "read_csv", warned |-> Len(blocks) # 3, dfs |-> <<>>] ELSE IF Len(blocks) # 3 THEN [err |-> "ValueError", raised_at |-> "unpack", warned |-> TRUE, dfs |-> <<>>] ELSE [err |-> "", raised_at |-> "", warned |-> FALSE, dfs |-> [i \in 1..3 |-> parsed[i].df]]))

parse_lookup_blocks(lines) == UnpackTables(LookupBlocks(lines))

---------------------------------------------------------------------------
\* Validation

\* the number of cells of a column that repeat an earlier one (Series.duplicated().sum());
\* missing values count as equal to each other
Duplicated(seq) == Cardinality({i \in 1..Len(seq) : \E j \in 1..(i - 1) : seq[j] = seq[i]})

MissingCount(df, col) == Cardinality({i \in 1..Len(df.rows) : isna(df.rows[i][col])})

validate_missing_and_duplicates(df) == [row_count |-> Len(df.rows), column_count |-> Len(df.columns), missing_by_column |-> [k \in 1..Len(df.columns) |-> [column |-> df.columns[k], missing_count |-> MissingCount(df, df.columns[k]), missing_pct |-> Ratio(MissingCount(df, df.columns[k]), Len(df.rows))]], duplicates_all_rows |-> Duplicated(df.rows), duplicates_by_encounter_id |-> IF HasCol(df, <<"e","n","c","o","u","n","t","e","r","_","i","d">>) THEN Some(Duplicated(Col(df, <<"e","n","c","o","u","n","t","e","r","_","i","d">>))) ELSE Nothing]

\* parse_age_range: (low, high) of a bucket "[low-high)", or (None, None)
NoRange == [low |-> Nothing, high |-> Nothing]

AgeBounds(low, high) == IF low.ok /\ high.ok THEN [low |-> Some(low.v), high |-> Some(high.v)] ELSE NoRange

AgeParts(parts) == IF Len(parts) # 2 THEN NoRange ELSE AgeBounds(PyInt(parts[1]), PyInt(parts[2]))

AgeInner(age_str) == IF ~(age_str # <<>> /\ age_str[1] = "[" /\ age_str[Len(age_str)] = ")" /\ "-" \in Range(age_str)) THEN NoRange ELSE AgeParts(Split(SubSeq(age_str, 2, Len(age_str) - 1), "-"))

parse_age_range(age) == IF isna(age) THEN NoRange ELSE AgeInner(Strip(age.s))

\* pd.to_numeric(value, errors="coerce"): an integer, a float or NaN.  A float is kept
\* as its floor i and whether it has a fractional part (frac), which is all the
\* comparisons and the cast to Int64 need.
NumNaN == [k |-> "nan", i |-> 0, frac |-> FALSE]

NumOf(i, frac) == [k |-> "num", i |-> i, frac |-> frac]

Decimal(neg, parts) == IF Len(parts) > 2 \/ ~IsDigits(parts[1]) \/ (Len(parts) = 2 /\ parts[2] # <<>> /\ ~IsDigits(parts[2])) THEN NumNaN ELSE With(Len(parts) = 2 /\ \E j \in 1..Len(parts[2]) : parts[2][j] # "0", LAMBDA frac : IF neg THEN NumOf(IF frac THEN 0 - DigitsValue(parts[1]) - 1 ELSE 0 - DigitsValue(parts[1]), frac) ELSE NumOf(DigitsValue(parts[1]), frac))

NumText(s) == Decimal(s # <<>> /\ s[1] = "-", Split(IF Signed(s) THEN Tail(s) ELSE s, "."))

to_numeric(cell) == IF isna(cell) THEN NumNaN ELSE IF cell.t = "int" THEN NumOf(cell.n, FALSE) ELSE NumText(Strip(cell.s))

\* comparisons of a to_numeric value with an integer (NaN compares false)
NumLess(x, k) == x.k = "num" /\ x.i < k

NumGreater(x, k) == x.k = "num" /\ (x.i > k \/ (x.i = k /\ x.frac))

AgeIssues(df, age_ranges, lows, highs) == [age_min_observed |-> IF lows = <<>> THEN Nothing ELSE Some(SetMin(Range(lows))), age_max_observed |-> IF highs = <<>> THEN Nothing ELSE Some(SetMax(Range(highs))), age_invalid_rows |-> Cardinality({i \in 1..Len(df.rows) : ~isna(df.rows[i][<<"a","g","e">>]) /\ ~parse_age_range(df.rows[i][<<"a","g","e">>]).low.some}), age_out_of_0_120 |-> Cardinality({j \in 1..SetMin({Len(lows), Len(highs)}) : lows[j] < 0 \/ highs[j] > 120})]

\* the values of a list of optional values that are there, in order
Somes(opts) == With(SelectIdx(Len(opts), LAMBDA j : opts[j].some), LAMBDA at : [j \in 1..Len(at) |-> opts[at[j]].v])

AgeRanges(df, ages) == [j \in 1..Len(ages) |-> parse_age_range(df.rows[ages[j]][<<"a","g","e">>])]

AgeLowsHighs(df, age_ranges) == AgeIssues(df, age_ranges, Somes([j \in 1..Len(age_ranges) |-> age_ranges[j].low]), Somes([j \in 1..Len(age_ranges) |-> age_ranges[j].high]))

AgeChecks(df) == AgeLowsHighs(df, AgeRanges(df, SelectIdx(Len(df.rows), LAMBDA i : ~isna(df.rows[i][<<"a","g","e">>]))))

TimeInHospitalChecks(df) == With([i \in 1..Len(df.rows) |-> to_numeric(df.rows[i][<<"t","i","m","e","_","i","n","_","h","o","s","p","i","t","a","l">>])], LAMBDA tih : [time_in_hospital_invalid_rows |-> Cardinality({i \in 1..Len(tih) : tih[i].k = "nan"}), time_in_hospital_less_than_1 |-> Cardinality({i \in 1..Len(tih) : NumLess(tih[i], 1)}), time_in_hospital_greater_than_14 |-> Cardinality({i \in 1..Len(tih) : NumGreater(tih[i], 14)})])

\* sorted(list(S)) for a set of texts
RECURSIVE SortTexts(_)
SortTexts(S) == IF S = {} THEN <<>> ELSE With(CHOOSE x \in S : \A y \in S \ {x} : TextLess(x, y), LAMBDA m : <<m>> \o SortTexts(S \ {m}))

valid_gender == {<<"M","a","l","e">>, <<"F","e","m","a","l","e">>, <<"U","n","k","n","o","w","n","/","I","n","v","a","l","i","d">>}

GenderChecks(df) == With({df.rows[i][<<"g","e","n","d","e","r">>].s : i \in {k \in 1..Len(df.rows) : ~isna(df.rows[k][<<"g","e","n","d","e","r">>])}}, LAMBDA unique_gender : [gender_unique_values |-> SortTexts(unique_gender), gender_invalid_values |-> SortTexts(unique_gender \ valid_gender)])

\* validate_logical_constraints: a family of checks is absent when its column is
validate_logical_constraints(df) == [age |-> IF HasCol(df, <<"a","g","e">>) THEN Some(AgeChecks(df)) ELSE Nothing, time_in_hospital |-> IF HasCol(df, <<"t","i","m","e","_","i","n","_","h","o","s","p","i","t","a","l">>) THEN Some(TimeInHospitalChecks(df)) ELSE Nothing, gender |-> IF HasCol(df, <<"g","e","n","d","e","r">>) THEN Some(GenderChecks(df)) ELSE Nothing]

\* run_validation: the report that is written to data_quality_report.json
run_validation(df) == [missing_and_duplicates |-> validate_missing_and_duplicates(df), logical_checks |-> validate_logical_constraints(df)]

---------------------------------------------------------------------------
\* Transform helpers

\* str(n) for an integer
RECURSIVE NatText(_)
NatText(n) == IF n < 10 THEN <<Digits[n + 1]>> ELSE Append(NatText(n \div 10), Digits[(n % 10) + 1])

\* Series.astype("string") of one cell
astype_string(cell) == IF cell.t = "int" THEN Str(IF cell.n < 0 THEN <<"-">> \o NatText(0 - cell.n) ELSE NatText(cell.n)) ELSE cell

\* clean_diag_code: trim, "?" and "" to missing, upper case
clean_diag_code(cell) == str_upper(ReplaceCell(str_strip(astype_string(cell)), {<<<<"?">>, NA>>, <<<<>>, NA>>}))

\* a standardize_med_status that replaces the known values and keeps the others
standardize_med_status_keeping(cell) == ReplaceCell(str_strip(astype_string(cell)), {<<<<"N","o">>, Str(<<"n","o">>)>>, <<<<"S","t","e","a","d","y">>, Str(<<"s","t","e","a","d","y">>)>>, <<<<"U","p">>, Str(<<"i","n","c","r","e","a","s","e","d">>)>>, <<<<"D","o","w","n">>, Str(<<"d","e","c","r","e","a","s","e","d">>)>>, <<<<"?">>, NA>>, <<<<"N","A">>, NA>>, <<<<"N","o","n","e">>, NA>>})

\* standardize_med_status: trim, then the mapping; a value that is no key is missing
standardize_med_status(cell) == MapCell(str_strip(astype_string(cell)), {<<<<"N","o">>, Str(<<"n","o">>)>>, <<<<"S","t","e","a","d","y">>, Str(<<"s","t","e","a","d","y">>)>>, <<<<"U","p">>, Str(<<"i","n","c","r","e","a","s","e","d">>)>>, <<<<"D","o","w","n">>, Str(<<"d","e","c","r","e","a","s","e","d">>)>>, <<<<"?">>, NA>>, <<<<"N","A">>, NA>>, <<<<"N","o","n","e">>, NA>>})

\* the active flag of a standardized medication status
med_active_flag(clean) == MapCell(clean, {<<<<"s","t","e","a","d","y">>, IntCell(1)>>, <<<<"i","n","c","r","e","a","s","e","d">>, IntCell(1)>>, <<<<"d","e","c","r","e","a","s","e","d">>, IntCell(1)>>, <<<<"n","o">>, IntCell(0)>>})

\* encode_gender: gender_clean and gender_female_flag of one value (no trimming)
gender_clean(cell) == MapCell(cell, {<<<<"M","a","l","e">>, Str(<<"M">>)>>, <<<<"F","e","m","a","l","e">>, Str(<<"F">>)>>, <<<<"U","n","k","n","o","w","n","/","I","n","v","a","l","i","d">>, Str(<<"U">>)>>})

gender_female_flag(clean) == MapCell(clean, {<<<<"F">>, IntCell(1)>>, <<<<"M">>, IntCell(0)>>, <<<<"U">>, NA>>})

encode_gender(df) == With([i \in 1..Len(df.rows) |-> gender_clean(df.rows[i][<<"g","e","n","d","e","r">>])], LAMBDA clean : SetCol(SetCol(df, <<"g","e","n","d","e","r","_","c","l","e","a","n">>, clean), <<"g","e","n","d","e","r","_","f","e","m","a","l","e","_","f","l","a","g">>, [i \in 1..Len(df.rows) |-> gender_female_flag(clean[i])]))

\* encode_race: trim, then the mapping
race_clean(cell) == MapCell(str_strip(astype_string(cell)), {<<<<"C","a","u","c","a","s","i","a","n">>, Str(<<"C","a","u","c","a","s","i","a","n">>)>>, <<<<"A","f","r","i","c","a","n","A","m","e","r","i","c","a","n">>, Str(<<"A","f","r","i","c","a","n"," ","A","m","e","r","i","c","a","n">>)>>, <<<<"A","s","i","a","n">>, Str(<<"A","s","i","a","n">>)>>, <<<<"H","i","s","p","a","n","i","c">>, Str(<<"H","i","s","p","a","n","i","c">>)>>, <<<<"O","t","h","e","r">>, Str(<<"O","t","h","e","r">>)>>, <<<<"?">>, NA>>, <<<<>>, NA>>})

encode_race(df) == SetCol(df, <<"r","a","c","e","_","c","l","e","a","n">>, [i \in 1..Len(df.rows) |-> race_clean(df.rows[i][<<"r","a","c","e">>])])

\* encode_readmitted.  s is the trimmed, upper-cased value.  Series.replace swaps the
\* three known values for integers and keeps every other value; astype("Int64") then
\* has to turn what was kept into an integer.  Missing stays missing.  A kept text
\* that is no integer literal raises in every pandas; one that is an integer literal
\* ("7") raises in a pandas that refuses str in an integer array and is converted by
\* one that calls int() on it (lenient).
readmitted_clean(cell) == str_upper(str_strip(astype_string(cell)))

CastKept(r, lenient) == IF r.t # "str" THEN [err |-> "", v |-> r] ELSE With(PyInt(r.s), LAMBDA k : IF lenient /\ k.ok THEN [err |-> "", v |-> IntCell(k.v)] ELSE [err |-> "TypeError", v |-> NA])

ReadmittedFlag(s, mapping, lenient) == CastKept(ReplaceCell(s, mapping), lenient)

any_flag_mapping == {<<<<"N","O">>, IntCell(0)>>, <<<<"<","3","0">>, IntCell(1)>>, <<<<">","3","0">>, IntCell(1)>>}

d30_flag_mapping == {<<<<"N","O">>, IntCell(0)>>, <<<<"<","3","0">>, IntCell(1)>>, <<<<">","3","0">>, IntCell(0)>>}

ReadmittedColumns(df, s, any, d30) == IF \E i \in 1..Len(s) : any[i].err # "" \/ d30[i].err # "" THEN [err |-> "TypeError", at |-> "encode_readmitted", df |-> None] ELSE [err |-> "", at |-> "", df |-> SetCol(SetCol(SetCol(df, <<"r","e","a","d","m","i","t","t","e","d","_","r","a","w","_","c","l","e","a","n">>, s), <<"r","e","a","d","m","i","t","t","e","d","_","a","n","y","_","f","l","a","g">>, [i \in 1..Len(s) |-> any[i].v]), <<"r","e","a","d","m","i","t","t","e","d","_","3","0","d","_","f","l","a","g">>, [i \in 1..Len(s) |-> d30[i].v])]

encode_readmitted(df, lenient) == With([i \in 1..Len(df.rows) |-> readmitted_clean(df.rows[i][<<"r","e","a","d","m","i","t","t","e","d">>])], LAMBDA s : ReadmittedColumns(df, s, [i \in 1..Len(s) |-> ReadmittedFlag(s[i], any_flag_mapping, lenient)], [i \in 1..Len(s) |-> ReadmittedFlag(s[i], d30_flag_mapping, lenient)]))

\* diag_group: the diagnosis family of a cleaned code
LeadingDigits(s) == With({i \in 1..Len(s) : s[i] \notin Range(Digits)}, LAMBDA stop : IF stop = {} THEN s ELSE SubSeq(s, 1, SetMin(stop) - 1))

\* re.match(r"(\d+(\.\d+)?)", code) and float() of the match, as a to_numeric value
FractionDigits(rest) == IF rest # <<>> /\ rest[1] = "." THEN LeadingDigits(Tail(rest)) ELSE <<>>

NumberOf(whole, fracd) == IF whole = <<>> THEN NumNaN ELSE NumOf(DigitsValue(whole), \E j \in 1..Len(fracd) : fracd[j] # "0")

LeadingNumber(code) == With(LeadingDigits(code), LAMBDA whole : NumberOf(whole, FractionDigits(SubSeq(code, Len(whole) + 1, Len(code)))))

\* lo <= num <= hi
NumBetween(x, lo, hi) == x.k = "num" /\ x.i >= lo /\ ~NumGreater(x, hi)

GroupOf(code, num) == IF StartsWith(code, <<"2","5","0">>) THEN Str(<<"d","i","a","b","e","t","e","s">>) ELSE IF num.k = "nan" THEN Str(<<"o","t","h","e","r">>) ELSE IF NumBetween(num, 390, 459) THEN Str(<<"c","i","r","c","u","l","a","t","o","r","y">>) ELSE IF NumBetween(num, 460, 519) THEN Str(<<"r","e","s","p","i","r","a","t","o","r","y">>) ELSE IF NumBetween(num, 520, 579) THEN Str(<<"d","i","g","e","s","t","i","v","e">>) ELSE Str(<<"o","t","h","e","r">>)

diag_group(cell) == IF isna(cell) THEN NA ELSE With(astype_string(cell).s, LAMBDA code : GroupOf(code, LeadingNumber(code)))

\* to_snake: spaces, hyphens and slashes to "_", lower case
to_snake(name) == Lower(ReplaceChar(ReplaceChar(ReplaceChar(name, " ", "_"), "-", "_"), "/", "_"))

---------------------------------------------------------------------------
\* The column lists of transform_encounters

numeric_cols == <<<<"t","i","m","e","_","i","n","_","h","o","s","p","i","t","a","l">>, <<"n","u","m","_","l","a","b","_","p","r","o","c","e","d","u","r","e","s">>, <<"n","u","m","_","p","r","o","c","e","d","u","r","e","s">>, <<"n","u","m","_","m","e","d","i","c","a","t","i","o","n","s">>, <<"n","u","m","b","e","r","_","o","u","t","p","a","t","i","e","n","t">>, <<"n","u","m","b","e","r","_","e","m","e","r","g","e","n","c","y">>, <<"n","u","m","b","e","r","_","i","n","p","a","t","i","e","n","t">>, <<"n","u","m","b","e","r","_","d","i","a","g","n","o","s","e","s">>>>

id_cols == <<<<"e","n","c","o","u","n","t","e","r","_","i","d">>, <<"p","a","t","i","e","n","t","_","n","b","r">>, <<"a","d","m","i","s","s","i","o","n","_","t","y","p","e","_","i","d">>, <<"d","i","s","c","h","a","r","g","e","_","d","i","s","p","o","s","i","t","i","o","n","_","i","d">>, <<"a","d","m","i","s","s","i","o","n","_","s","o","u","r","c","e","_","i","d">>>>

diag_cols == <<<<"d","i","a","g","_","1">>, <<"d","i","a","g","_","2">>, <<"d","i","a","g","_","3">>>>

med_cols == <<<<"m","e","t","f","o","r","m","i","n">>, <<"r","e","p","a","g","l","i","n","i","d","e">>, <<"n","a","t","e","g","l","i","n","i","d","e">>, <<"c","h","l","o","r","p","r","o","p","a","m","i","d","e">>, <<"g","l","i","m","e","p","i","r","i","d","e">>, <<"a","c","e","t","o","h","e","x","a","m","i","d","e">>, <<"g","l","i","p","i","z","i","d","e">>, <<"g","l","y","b","u","r","i","d","e">>, <<"t","o","l","b","u","t","a","m","i","d","e">>, <<"p","i","o","g","l","i","t","a","z","o","n","e">>, <<"r","o","s","i","g","l","i","t","a","z","o","n","e">>, <<"a","c","a","r","b","o","s","e">>, <<"m","i","g","l","i","t","o","l">>, <<"t","r","o","g","l","i","t","a","z","o","n","e">>, <<"t","o","l","a","z","a","m","i","d","e">>, <<"e","x","a","m","i","d","e">>, <<"c","i","t","o","g","l","i","p","t","o","n">>, <<"i","n","s","u","l","i","n">>, <<"g","l","y","b","u","r","i","d","e","-","m","e","t","f","o","r","m","i","n">>, <<"g","l","i","p","i","z","i","d","e","-","m","e","t","f","o","r","m","i","n">>, <<"g","l","i","m","e","p","i","r","i","d","e","-","p","i","o","g","l","i","t","a","z","o","n","e">>, <<"m","e","t","f","o","r","m","i","n","-","r","o","s","i","g","l","i","t","a","z","o","n","e">>, <<"m","e","t","f","o","r","m","i","n","-","p","i","o","g","l","i","t","a","z","o","n","e">>>>

lab_cols == <<<<"A","1","C","r","e","s","u","l","t">>, <<"m","a","x","_","g","l","u","_","s","e","r","u","m">>>>

\* the columns of a list that the frame has, in the list's order
Present(df, cols) == With(SelectIdx(Len(cols), LAMBDA k : HasCol(df, cols[k])), LAMBDA at : [j \in 1..Len(at) |-> cols[at[j]]])

---------------------------------------------------------------------------
\* The steps of transform_encounters

\* 1) df[col] = pd.to_numeric(df[col], errors="coerce").astype("Int64"): NaN becomes
\* missing, a float with a fractional part cannot be cast and raises TypeError
Int64OfNum(x) == IF x.k = "nan" THEN NA ELSE IntCell(x.i)

CastRaises(df, col) == \E i \in 1..Len(df.rows) : to_numeric(df.rows[i][col]).frac

RECURSIVE CoerceNumeric(_, _)
CoerceNumeric(df, cols) == IF cols = <<>> THEN [err |-> "", at |-> "", df |-> df] ELSE IF CastRaises(df, cols[1]) THEN [err |-> "TypeError", at |-> "numeric_cols", df |-> None] ELSE CoerceNumeric(SetCol(df, cols[1], [i \in 1..Len(df.rows) |-> Int64OfNum(to_numeric(df.rows[i][cols[1]]))]), Tail(cols))

RECURSIVE IdsAsString(_, _)
IdsAsString(df, cols) == IF cols = <<>> THEN df ELSE IdsAsString(SetCol(df, cols[1], [i \in 1..Len(df.rows) |-> astype_string(df.rows[i][cols[1]])]), Tail(cols))

\* 2) the cleaned diagnosis codes
RECURSIVE CleanDiags(_, _)
CleanDiags(df, cols) == IF cols = <<>> THEN df ELSE CleanDiags(SetCol(df, cols[1] \o <<"_","c","l","e","a","n">>, [i \in 1..Len(df.rows) |-> clean_diag_code(df.rows[i][cols[1]])]), Tail(cols))

\* 3) the medications: the standardized status and the active flag of each present column
MedClean(df, col) == With([i \in 1..Len(df.rows) |-> standardize_med_status(df.rows[i][col])], LAMBDA clean : SetCol(SetCol(df, col \o <<"_","c","l","e","a","n">>, clean), col \o <<"_","c","l","e","a","n">> \o <<"_","a","c","t","i","v","e","_","f","l","a","g">>, [i \in 1..Len(df.rows) |-> med_active_flag(clean[i])]))

RECURSIVE CleanMeds(_, _)
CleanMeds(df, cols) == IF cols = <<>> THEN df ELSE CleanMeds(MedClean(df, cols[1]), Tail(cols))

\* the flag columns collected by the loop, in order
ActiveFlags(cols) == [k \in 1..Len(cols) |-> cols[k] \o <<"_","c","l","e","a","n">> \o <<"_","a","c","t","i","v","e","_","f","l","a","g">>]

\* df[active_flags].sum(axis=1): a missing flag adds nothing
RowSum(row, flags) == SeqSum([k \in 1..Len(flags) |-> IF isna(row[flags[k]]) THEN 0 ELSE row[flags[k]].n])

CountActiveMeds(df, flags) == IF flags = <<>> THEN df ELSE SetCol(df, <<"n","u","m","_","a","c","t","i","v","e","_","d","i","a","b","e","t","e","s","_","m","e","d","s">>, [i \in 1..Len(df.rows) |-> IntCell(RowSum(df.rows[i], flags))])

\* the lab results: trim, "None", "?" and "" to missing
lab_clean(cell) == ReplaceCell(str_strip(astype_string(cell)), {<<<<"N","o","n","e">>, NA>>, <<<<"?">>, NA>>, <<<<>>, NA>>})

RECURSIVE CleanLabs(_, _)
CleanLabs(df, cols) == IF cols = <<>> THEN df ELSE CleanLabs(SetCol(df, cols[1] \o <<"_","c","l","e","a","n">>, [i \in 1..Len(df.rows) |-> lab_clean(df.rows[i][cols[1]])]), Tail(cols))

\* df.rename(columns={old: new}) / df.columns = [...]: every column under its new name
RenameCols(df, Name(_)) == With([k \in 1..Len(df.columns) |-> Name(df.columns[k])], LAMBDA names : Frame(names, [i \in 1..Len(df.rows) |-> [c \in Range(names) |-> df.rows[i][df.columns[CHOOSE k \in 1..Len(names) : names[k] = c]]]]))

\* 5) a lookup table made ready for its join: the id column as text, the
\* description column under the name of its field
RenameDescription(t, desc) == IF HasCol(t, <<"d","e","s","c","r","i","p","t","i","o","n">>) THEN RenameCols(t, LAMBDA c : IF c = <<"d","e","s","c","r","i","p","t","i","o","n">> THEN desc ELSE c) ELSE t

PrepareLookup(table, key, desc) == RenameDescription(SetCol(table, key, [i \in 1..Len(table.rows) |-> astype_string(table.rows[i][key])]), desc)

\* df.merge(right, on=key, how="left"): every left row in order, once for each right
\* row with its key (missing keys match each other), once with missing right columns
\* when there is none.  A column both sides have gets the suffix _x on the left and
\* _y on the right.
\* a join that keeps only the left rows with a match (how="inner")
MergeRowsInner(left, right, key, i) == With(SelectIdx(Len(right.rows), LAMBDA j : right.rows[j][key] = left.rows[i][key]), LAMBDA hits : [h \in 1..Len(hits) |-> [l |-> i, r |-> hits[h]]])

MergeRows(left, right, key, i) == With(SelectIdx(Len(right.rows), LAMBDA j : right.rows[j][key] = left.rows[i][key]), LAMBDA hits : IF hits = <<>> THEN <<[l |-> i, r |-> 0]>> ELSE [h \in 1..Len(hits) |-> [l |-> i, r |-> hits[h]]])

Suffixed(c, both, suffix) == IF c \in both THEN c \o suffix ELSE c

\* the merged frame: L is the left frame and R the right frame without its key, both
\* under their final column names; pairs are the (left row, right row) matches
MergedFrame(L, R, pairs) == Frame(L.columns \o R.columns, [p \in 1..Len(pairs) |-> [c \in Range(L.columns) \cup Range(R.columns) |-> IF c \in Range(L.columns) THEN L.rows[pairs[p].l][c] ELSE IF pairs[p].r = 0 THEN NA ELSE R.rows[pairs[p].r][c]]])

DropCol(df, col) == With(SelectIdx(Len(df.columns), LAMBDA k : df.columns[k] # col), LAMBDA at : Frame([j \in 1..Len(at) |-> df.columns[at[j]]], [i \in 1..Len(df.rows) |-> [c \in Range(df.columns) \ {col} |-> df.rows[i][c]]]))

merge_left(left, right, key) == With((Range(left.columns) \cap Range(right.columns)) \ {key}, LAMBDA both : MergedFrame(RenameCols(left, LAMBDA c : Suffixed(c, both, <<"_","x">>)), RenameCols(DropCol(right, key), LAMBDA c : Suffixed(c, both, <<"_","y">>)), Flatten([i \in 1..Len(left.rows) |-> MergeRows(left, right, key, i)])))

---------------------------------------------------------------------------
\* transform_encounters

Raised(err, at) == [err |-> err, at |-> at, df |-> None]

Returned(df) == [err |-> "", at |-> "", df |-> df]

\* the first error ends the function: the next step runs on the frame of a step that returned
Then(r, Step(_)) == IF r.err # "" THEN r ELSE Step(r.df)

\* 1) numeric types and ids as text, 2) diagnosis codes; the diagnosis group needs diag_1
DiagGroup(df) == IF ~HasCol(df, <<"d","i","a","g","_","1","_","c","l","e","a","n">>) THEN Raised("KeyError", "diag_1_clean") ELSE Returned(SetCol(df, <<"d","i","a","g","_","1","_","g","r","o","u","p">>, [i \in 1..Len(df.rows) |-> diag_group(df.rows[i][<<"d","i","a","g","_","1","_","c","l","e","a","n">>])]))

TransformDiags(df) == With(CleanDiags(df, Present(df, diag_cols)), DiagGroup)

TransformIds(df) == With(IdsAsString(df, Present(df, id_cols)), TransformDiags)

TransformTypes(df) == Then(CoerceNumeric(df, Present(df, numeric_cols)), TransformIds)

\* 3) medications
TransformMeds(df) == With(Present(df, med_cols), LAMBDA present : CountActiveMeds(CleanMeds(df, present), ActiveFlags(present)))

\* 4) gender, race, readmitted, and the lab results
TransformLabs(df) == Returned(CleanLabs(df, Present(df, lab_cols)))

TransformAttributes(df, lenient) == IF ~HasCol(df, <<"g","e","n","d","e","r">>) THEN Raised("KeyError", "gender") ELSE IF ~HasCol(df, <<"r","a","c","e">>) THEN Raised("KeyError", "race") ELSE IF ~HasCol(df, <<"r","e","a","d","m","i","t","t","e","d">>) THEN Raised("KeyError", "readmitted") ELSE Then(encode_readmitted(encode_race(encode_gender(df)), lenient), TransformLabs)

\* 5) the three left joins.  Nothing looks at the keys of a lookup table before it is joined.
MergeLookup(df, table, key) == IF ~HasCol(df, key) THEN Raised("KeyError", "merge") ELSE Returned(merge_left(df, table, key))

JoinLookups(df, admission_type_df, discharge_disp_df, admission_source_df) == IF ~HasCol(admission_type_df, <<"a","d","m","i","s","s","i","o","n","_","t","y","p","e","_","i","d">>) THEN Raised("KeyError", "admission_type_id") ELSE IF ~HasCol(discharge_disp_df, <<"d","i","s","c","h","a","r","g","e","_","d","i","s","p","o","s","i","t","i","o","n","_","i","d">>) THEN Raised("KeyError", "discharge_disposition_id") ELSE IF ~HasCol(admission_source_df, <<"a","d","m","i","s","s","i","o","n","_","s","o","u","r","c","e","_","i","d">>) THEN Raised("KeyError", "admission_source_id") ELSE Then(Then(MergeLookup(df, PrepareLookup(admission_type_df, <<"a","d","m","i","s","s","i","o","n","_","t","y","p","e","_","i","d">>, <<"a","d","m","i","s","s","i","o","n","_","t","y","p","e","_","d","e","s","c">>), <<"a","d","m","i","s","s","i","o","n","_","t","y","p","e","_","i","d">>), LAMBDA m1 : MergeLookup(m1, PrepareLookup(discharge_disp_df, <<"d","i","s","c","h","a","r","g","e","_","d","i","s","p","o","s","i","t","i","o","n","_","i","d">>, <<"d","i","s","c","h","a","r","g","e","_","d","i","s","p","o","s","i","t","i","o","n","_","d","e","s","c">>), <<"d","i","s","c","h","a","r","g","e","_","d","i","s","p","o","s","i","t","i","o","n","_","i","d">>)), LAMBDA m2 : MergeLookup(m2, PrepareLookup(admission_source_df, <<"a","d","m","i","s","s","i","o","n","_","s","o","u","r","c","e","_","i","d">>, <<"a","d","m","i","s","s","i","o","n","_","s","o","u","r","c","e","_","d","e","s","c">>), <<"a","d","m","i","s","s","i","o","n","_","s","o","u","r","c","e","_","i","d">>))

\* the whole function: the steps in order, the first error ends it; 6) the column
\* names are canonicalized last
transform_encounters(df_in, admission_type_df, discharge_disp_df, admission_source_df, lenient) == Then(Then(Then(TransformTypes(df_in), LAMBDA d : TransformAttributes(TransformMeds(d), lenient)), LAMBDA d : JoinLookups(d, admission_type_df, discharge_disp_df, admission_source_df)), LAMBDA d : Returned(RenameCols(d, to_snake)))

---------------------------------------------------------------------------
\* generate_summaries

\* Series.mean() / Series.median() of integer cells: missing values are skipped
Present_n(cells) == SelectIdx(Len(cells), LAMBDA i : ~isna(cells[i]))

IntsOf(cells) == With(Present_n(cells), LAMBDA at : [j \in 1..Len(at) |-> cells[at[j]].n])

MeanOf(v) == Ratio(SeqSum(v), Len(v))

Mean(cells) == MeanOf(IntsOf(cells))

RECURSIVE SortInts(_)
SortInts(s) == IF s = <<>> THEN <<>> ELSE With(CHOOSE i \in 1..Len(s) : \A j \in 1..Len(s) : s[i] <= s[j], LAMBDA k : <<s[k]>> \o SortInts(SubSeq(s, 1, k - 1) \o SubSeq(s, k + 1, Len(s))))

MedianOf(v) == IF Len(v) = 0 THEN Ratio(0, 0) ELSE IF Len(v) % 2 = 1 THEN Ratio(v[(Len(v) + 1) \div 2], 1) ELSE Ratio(v[Len(v) \div 2] + v[(Len(v) \div 2) + 1], 2)

Median(cells) == MedianOf(SortInts(IntsOf(cells)))

\* a boolean column's mean: the rows where it is True over all the rows
BoolMean(flags) == Ratio(Cardinality({i \in 1..Len(flags) : flags[i]}), Len(flags))

\* df["readmitted"].str.upper().str.strip()
readmitted_upper(cell) == str_strip(str_upper(cell))

\* Series != "NO" and Series.ne("NO") on the raw text column: a missing value is
\* not equal to "NO", so the comparison is True for it
ne_NO(cell) == readmitted_upper(cell) # Str(<<"N","O">>)

\* Series == "<30": False for a missing value
eq_lt30(cell) == readmitted_upper(cell) = Str(<<"<","3","0">>)

\* to_numeric of a column of the cleaned frame, as integer cells
NumCol(df, col) == [i \in 1..Len(df.rows) |-> Int64OfNum(to_numeric(df.rows[i][col]))]

summary_overall(df) == [n_encounters |-> Len(df.rows), n_unique_patients |-> Cardinality({df.rows[i][<<"p","a","t","i","e","n","t","_","n","b","r">>] : i \in 1..Len(df.rows)} \ {NA}), mean_length_of_stay_days |-> Mean(NumCol(df, <<"t","i","m","e","_","i","n","_","h","o","s","p","i","t","a","l">>)), median_length_of_stay_days |-> Median(NumCol(df, <<"t","i","m","e","_","i","n","_","h","o","s","p","i","t","a","l">>)), mean_num_medications |-> Mean(NumCol(df, <<"n","u","m","_","m","e","d","i","c","a","t","i","o","n","s">>)), readmission_rate_any |-> BoolMean([i \in 1..Len(df.rows) |-> ne_NO(df.rows[i][<<"r","e","a","d","m","i","t","t","e","d">>])]), readmission_rate_30d |-> BoolMean([i \in 1..Len(df.rows) |-> eq_lt30(df.rows[i][<<"r","e","a","d","m","i","t","t","e","d">>])])]

\* the order of sort_values on a text column: by text, missing last
CellLess(a, b) == IF isna(a) THEN FALSE ELSE IF isna(b) THEN TRUE ELSE TextLess(a.s, b.s)

\* the order of sort_values on a list of columns
RECURSIVE KeyLess(_, _)
KeyLess(a, b) == IF a = <<>> THEN FALSE ELSE IF a[1] = b[1] THEN KeyLess(Tail(a), Tail(b)) ELSE CellLess(a[1], b[1])

RECURSIVE SortKeys(_)
SortKeys(S) == IF S = {} THEN <<>> ELSE With(CHOOSE x \in S : \A y \in S \ {x} : KeyLess(x, y), LAMBDA m : <<m>> \o SortKeys(S \ {m}))

\* groupby(by, dropna=False): the groups' keys in order, and the rows of a group
RowKey(df, by, i) == [k \in 1..Len(by) |-> df.rows[i][by[k]]]

GroupKeys(df, by) == SortKeys({RowKey(df, by, i) : i \in 1..Len(df.rows)})

GroupRows(df, by, key) == SelectIdx(Len(df.rows), LAMBDA i : RowKey(df, by, i) = key)

\* the readmission rate of a group: the mean of readmitted_any over its rows
GroupRate(df, rows) == BoolMean([j \in 1..Len(rows) |-> ne_NO(df.rows[rows[j]][<<"r","e","a","d","m","i","t","t","e","d">>])])

\* readmission by one column (age, insulin): count and mean of readmitted_any
GroupRateRow(df, key, rows) == [key |-> key, n_encounters |-> Len(rows), readmission_rate |-> GroupRate(df, rows)]

readmission_by(df, col) == With(GroupKeys(df, <<col>>), LAMBDA keys : [g \in 1..Len(keys) |-> GroupRateRow(df, keys[g], GroupRows(df, <<col>>, keys[g]))])

RaceGenderRow(df, key, rows, los) == [key |-> key, n_encounters |-> Cardinality({j \in 1..Len(rows) : ~isna(df.rows[rows[j]][<<"e","n","c","o","u","n","t","e","r","_","i","d">>])}), mean_los_days |-> Mean([j \in 1..Len(rows) |-> los[rows[j]]]), readmission_rate |-> GroupRate(df, rows)]

RaceGenderRows(df, by, keys, los) == [g \in 1..Len(keys) |-> RaceGenderRow(df, keys[g], GroupRows(df, by, keys[g]), los)]

race_gender_summary(df) == RaceGenderRows(df, <<<<"r","a","c","e">>, <<"g","e","n","d","e","r">>>>, GroupKeys(df, <<<<"r","a","c","e">>, <<"g","e","n","d","e","r">>>>), NumCol(df, <<"t","i","m","e","_","i","n","_","h","o","s","p","i","t","a","l">>))

NoSummaries == [overall |-> Nothing, by_age |-> Nothing, by_insulin |-> Nothing, race_gender |-> Nothing]

HasCols(df, cols) == \A c \in cols : HasCol(df, c)

\* the four tables in the order they are computed and written; a missing column is a
\* KeyError that ends the function with the tables before it already written
SummaryFiles == <<"summary_overall_metrics.csv", "readmission_by_age.csv", "readmission_by_insulin.csv", "race_gender_summary.csv">>

Summarized(err, tables, n) == [err |-> err, tables |-> tables, files |-> SubSeq(SummaryFiles, 1, n)]

SummaryRaceGender(df, t) == IF ~HasCols(df, {<<"r","a","c","e">>, <<"g","e","n","d","e","r">>, <<"e","n","c","o","u","n","t","e","r","_","i","d">>}) THEN Summarized("KeyError", t, 3) ELSE Summarized("", [t EXCEPT !.race_gender = Some(race_gender_summary(df))], 4)

SummaryInsulin(df, t) == IF ~HasCol(df, <<"i","n","s","u","l","i","n">>) THEN Summarized("KeyError", t, 2) ELSE SummaryRaceGender(df, [t EXCEPT !.by_insulin = Some(readmission_by(df, <<"i","n","s","u","l","i","n">>))])

SummaryAge(df, t) == IF ~HasCol(df, <<"a","g","e">>) THEN Summarized("KeyError", t, 1) ELSE SummaryInsulin(df, [t EXCEPT !.by_age = Some(readmission_by(df, <<"a","g","e">>))])

generate_summaries(df) == IF ~HasCols(df, {<<"t","i","m","e","_","i","n","_","h","o","s","p","i","t","a","l">>, <<"n","u","m","_","m","e","d","i","c","a","t","i","o","n","s">>, <<"r","e","a","d","m","i","t","t","e","d">>, <<"p","a","t","i","e","n","t","_","n","b","r">>}) THEN Summarized("KeyError", NoSummaries, 0) ELSE SummaryAge(df, [NoSummaries EXCEPT !.overall = Some(summary_overall(df))])

---------------------------------------------------------------------------
\* main(): one step per statement that can fail, in program order

Stages == <<"ingest", "write_bronze", "write_ingestion_report", "run_validation", "parse_lookups", "transform", "write_silver_parquet", "write_silver_csv", "write_silver_report", "generate_summaries", "done">>

\* a main that goes from the lookup parsing straight to the cleaned snapshot
StageAfterSkippingTransform(stage) == IF stage = "parse_lookups" THEN "write_silver_parquet" ELSE Stages[IndexOf(Stages, stage) + 1]

\* the statement after a completed one
StageAfter(stage) == Stages[IndexOf(Stages, stage) + 1]

NoError == [stage |-> "", err |-> "", at |-> ""]

NotRun == [err |-> "", at |-> "not run", df |-> None]

\* an exception leaves main: nothing after the failing statement runs
Fail(stage, err, at) == pc' = "failed" /\ error' = [stage |-> stage, err |-> err, at |-> at]

\* 1) df_raw, ingestion_report = ingest_main_encounters(MAIN_CSV_PATH)
Ingested(r) == IF r.err # "" THEN Fail("ingest", r.err, "read_csv") /\ UNCHANGED <<df_raw, ingestion_report>> ELSE df_raw' = r.df /\ ingestion_report' = r.summary /\ pc' = StageAfter("ingest") /\ UNCHANGED error

Ingest == /\ pc = "ingest"
          /\ Ingested(ingest_main_encounters(main_csv))
          /\ UNCHANGED <<main_csv, lookup_csv, dq_report, dfs, df_silver, df_again, summaries, written>>

\* a write to durable storage: the file is there afterwards, or the write raised OSError
WriteFile(stage, file) == /\ pc = stage
                          /\ \E io_ok \in BOOLEAN : IF io_ok THEN written' = Append(written, file) /\ pc' = StageAfter(stage) /\ UNCHANGED error ELSE Fail(stage, "OSError", file) /\ UNCHANGED written

\* df_raw.to_parquet(bronze_main_path)
WriteBronze == WriteFile("write_bronze", "diabetic_encounters_bronze.parquet") /\ UNCHANGED <<main_csv, lookup_csv, df_raw, ingestion_report, dq_report, dfs, df_silver, df_again, summaries>>

\* json.dump(ingestion_report, ...)
WriteIngestionReport == WriteFile("write_ingestion_report", "ingestion_report.json") /\ UNCHANGED <<main_csv, lookup_csv, df_raw, ingestion_report, dq_report, dfs, df_silver, df_again, summaries>>

\* 2) run_validation(df_raw, DQ_REPORT_DIR): the report is computed, then written
RunValidation == /\ WriteFile("run_validation", "data_quality_report.json")
                 /\ dq_report' = IF pc' = "failed" THEN dq_report ELSE Some(run_validation(df_raw))
                 /\ UNCHANGED <<main_csv, lookup_csv, df_raw, ingestion_report, dfs, df_silver, df_again, summaries>>

\* 3) admission_type_df, discharge_disp_df, admission_source_df = parse_lookup_blocks(LOOKUP_CSV_PATH)
Parsed(r) == IF r.err # "" THEN Fail("parse_lookups", r.err, r.raised_at) /\ UNCHANGED dfs ELSE dfs' = r.dfs /\ pc' = StageAfter("parse_lookups") /\ UNCHANGED error

ParseLookups == /\ pc = "parse_lookups"
                /\ Parsed(parse_lookup_blocks(lookup_csv))
                /\ UNCHANGED <<main_csv, lookup_csv, df_raw, ingestion_report, dq_report, df_silver, df_again, summaries, written>>

\* 4) df_silver = transform_encounters(df_raw, admission_type_df, discharge_disp_df, admission_source_df)
Transformed(r) == IF r.err # "" THEN Fail("transform", r.err, r.at) /\ UNCHANGED df_silver ELSE df_silver' = r.df /\ pc' = StageAfter("transform") /\ UNCHANGED error

Transform == /\ pc = "transform"
             /\ \E lenient \in BOOLEAN : Transformed(transform_encounters(df_raw, dfs[1], dfs[2], dfs[3], lenient))
             /\ UNCHANGED <<main_csv, lookup_csv, df_raw, ingestion_report, dq_report, dfs, df_again, summaries, written>>

\* df_silver.to_parquet(...), df_silver.to_csv(...), the export report
WriteSilverParquet == WriteFile("write_silver_parquet", "diabetic_encounters_silver.parquet") /\ UNCHANGED <<main_csv, lookup_csv, df_raw, ingestion_report, dq_report, dfs, df_silver, df_again, summaries>>

WriteSilverCsv == WriteFile("write_silver_csv", "diabetic_encounters_silver.csv") /\ UNCHANGED <<main_csv, lookup_csv, df_raw, ingestion_report, dq_report, dfs, df_silver, df_again, summaries>>

WriteSilverReport == WriteFile("write_silver_report", "silver_export_report.json") /\ UNCHANGED <<main_csv, lookup_csv, df_raw, ingestion_report, dq_report, dfs, df_silver, df_again, summaries>>

\* 5) generate_summaries(df_silver, REPORT_DIR): the tables written before a KeyError stay written
Summarize(r, io_ok) == IF ~io_ok THEN Fail("generate_summaries", "OSError", "summary_overall_metrics.csv") /\ UNCHANGED <<summaries, written>> ELSE summaries' = r.tables /\ written' = written \o r.files /\ IF r.err # "" THEN Fail("generate_summaries", r.err, "df_silver") ELSE pc' = StageAfter("generate_summaries") /\ UNCHANGED error

GenerateSummaries == /\ pc = "generate_summaries"
                     /\ \E io_ok \in BOOLEAN : Summarize(generate_summaries(df_silver), io_ok)
                     /\ UNCHANGED <<main_csv, lookup_csv, df_raw, ingestion_report, dq_report, dfs, df_silver, df_again>>

\* transform_encounters applied to its own output with the same lookup tables
RerunTransform == /\ pc = "write_silver_parquet"
                  /\ df_again = NotRun
                  /\ \E lenient \in BOOLEAN : df_again' = transform_encounters(df_silver, dfs[1], dfs[2], dfs[3], lenient)
                  /\ UNCHANGED <<pc, main_csv, lookup_csv, df_raw, ingestion_report, dq_report, dfs, df_silver, summaries, written, error>>

Next == Ingest \/ WriteBronze \/ WriteIngestionReport \/ RunValidation \/ ParseLookups \/ Transform \/ WriteSilverParquet \/ WriteSilverCsv \/ WriteSilverReport \/ GenerateSummaries

NextRerun == Next \/ RerunTransform

---------------------------------------------------------------------------
\* Input files

\* the columns of the encounter extract that the model carries
BaseHeader == <<<<"e","n","c","o","u","n","t","e","r","_","i","d">>, <<"p","a","t","i","e","n","t","_","n","b","r">>, <<"r","a","c","e">>, <<"g","e","n","d","e","r">>, <<"a","g","e">>, <<"a","d","m","i","s","s","i","o","n","_","t","y","p","e","_","i","d">>, <<"d","i","s","c","h","a","r","g","e","_","d","i","s","p","o","s","i","t","i","o","n","_","i","d">>, <<"a","d","m","i","s","s","i","o","n","_","s","o","u","r","c","e","_","i","d">>, <<"t","i","m","e","_","i","n","_","h","o","s","p","i","t","a","l">>, <<"n","u","m","_","m","e","d","i","c","a","t","i","o","n","s">>, <<"d","i","a","g","_","1">>, <<"A","1","C","r","e","s","u","l","t">>, <<"i","n","s","u","l","i","n">>, <<"g","l","y","b","u","r","i","d","e","-","m","e","t","f","o","r","m","i","n">>, <<"r","e","a","d","m","i","t","t","e","d">>>>

BaseValues == <<<<"1">>, <<"7">>, <<"C","a","u","c","a","s","i","a","n">>, <<"F","e","m","a","l","e">>, <<"[","6","0","-","7","0",")">>, <<"1">>, <<"1">>, <<"7">>, <<"3">>, <<"9">>, <<"2","5","0",".","8","3">>, <<">","7">>, <<"N","o">>, <<"N","o">>, <<"N","O">>>>

\* an encounter as its fields by column
BaseRow == [c \in Range(BaseHeader) |-> BaseValues[IndexOf(BaseHeader, c)]]

\* the text of an extract: the header line, then one line per encounter
CsvText(header, rows) == <<Join(header, <<",">>)>> \o [i \in 1..Len(rows) |-> Join([k \in 1..Len(header) |-> rows[i][header[k]]], <<",">>)]

\* every list of at most n members of S
SeqsUpTo(S, n) == UNION {[1..k -> S] : k \in 0..n}

\* the header without some columns
Without(header, cols) == With(SelectIdx(Len(header), LAMBDA k : header[k] \notin cols), LAMBDA at : [j \in 1..Len(at) |-> header[at[j]]])

\* the lookup file: the blocks with one separator line between two of them
TypeBlock == <<<<"a","d","m","i","s","s","i","o","n","_","t","y","p","e","_","i","d",",","d","e","s","c","r","i","p","t","i","o","n">>, <<"1",",","E","m","e","r","g","e","n","c","y">>, <<"2",",","U","r","g","e","n","t">>>>

DispBlock == <<<<"d","i","s","c","h","a","r","g","e","_","d","i","s","p","o","s","i","t","i","o","n","_","i","d",",","d","e","s","c","r","i","p","t","i","o","n">>, <<"1",",","D","i","s","c","h","a","r","g","e","d"," ","t","o"," ","h","o","m","e">>, <<"2",",","T","r","a","n","s","f","e","r","r","e","d">>>>

SourceBlock == <<<<"a","d","m","i","s","s","i","o","n","_","s","o","u","r","c","e","_","i","d",",","d","e","s","c","r","i","p","t","i","o","n">>, <<"7",",","E","m","e","r","g","e","n","c","y"," ","R","o","o","m">>, <<"1",",","P","h","y","s","i","c","i","a","n"," ","R","e","f","e","r","r","a","l">>>>

RECURSIVE JoinBlocks(_, _)
JoinBlocks(blocks, sep) == IF blocks = <<>> THEN <<>> ELSE IF Len(blocks) = 1 THEN blocks[1] ELSE blocks[1] \o sep \o JoinBlocks(Tail(blocks), sep)

LookupText == JoinBlocks(<<TypeBlock, DispBlock, SourceBlock>>, <<<<",">>>>)

InitRest == /\ pc = "ingest"
            /\ df_raw = None
            /\ ingestion_report = Nothing
            /\ dq_report = Nothing
            /\ dfs = <<>>
            /\ df_silver = None
            /\ df_again = NotRun
            /\ summaries = NoSummaries
            /\ written = <<>>
            /\ error = NoError

---------------------------------------------------------------------------
\* Spec: runs of main() over encounter files and lookup files of every shape

SecondRow == [BaseRow EXCEPT ![<<"e","n","c","o","u","n","t","e","r","_","i","d">>] = <<"2">>, ![<<"g","e","n","d","e","r">>] = <<"M","a","l","e">>, ![<<"r","e","a","d","m","i","t","t","e","d">>] = <<"<","3","0">>, ![<<"i","n","s","u","l","i","n">>] = <<"U","p">>]

\* a line with more fields than the header (skipped by the loader), and a blank line
ExtraLines == {<<>>, <<<<"3",",","8",",","A","s","i","a","n",",","M","a","l","e",",","[","0","-","1","0",")",",","1",",","1",",","7",",","2",",","5",",","4","8","6",",",">","7",",","N","o",",","N","o",",","N","O",",","e","x","t","r","a",",","f","i","e","l","d","s">>>>, <<<<>>>>}

MainFiles == {<<>>} \cup {CsvText(h, rows) \o extra : h \in {BaseHeader, Without(BaseHeader, {<<"i","n","s","u","l","i","n">>}), Without(BaseHeader, {<<"g","e","n","d","e","r">>})}, rows \in SeqsUpTo({BaseRow, SecondRow}, MaxRows), extra \in ExtraLines}

BaseFile == CsvText(BaseHeader, <<BaseRow, SecondRow>>)

\* k blocks, the three tables in turn
LookupBlockList(k) == [i \in 1..k |-> <<TypeBlock, DispBlock, SourceBlock>>[((i - 1) % 3) + 1]]

Separators == {<<<<",">>>>, <<<<>>>>, <<<<",">>, <<>>>>, <<<<" ",","," ">>>>}

LookupFiles == {lead \o JoinBlocks(LookupBlockList(k), sep) \o trail : k \in 0..MaxBlocks, sep \in Separators, lead \in {<<>>, <<<<",">>>>}, trail \in {<<>>, <<<<>>>>}}

Init == /\ \/ main_csv \in MainFiles /\ lookup_csv = LookupText
           \/ main_csv = BaseFile /\ lookup_csv \in LookupFiles
        /\ InitRest

Spec == Init /\ [][Next]_vars

---------------------------------------------------------------------------
\* Runs of main() over families of encounter files, one family per field rule

\* the encounters whose field col is one of texts, the other fields as in BaseRow
RowsWith(col, texts) == {[BaseRow EXCEPT ![col] = t] : t \in texts}

\* the extracts of at most n encounters out of rows, and the intact lookup file
InitFiles(rows, n) == /\ main_csv \in {CsvText(BaseHeader, r) : r \in SeqsUpTo(rows, n)}
                      /\ lookup_csv = LookupText
                      /\ InitRest

\* SpecAudit: the age buckets
MaxAuditRows == 2

AgeTexts == {<<"[","6","0","-","7","0",")">>, <<"[","0","-","1","0",")">>, <<"[","-","5","-","1","0",")">>, <<"[","1","1","0","-","1","3","0",")">>, <<"7","0">>, <<"[","7","0",")">>, <<"[","a","-","b",")">>, <<"?">>}

InitAudit == InitFiles(RowsWith(<<"a","g","e">>, AgeTexts), MaxAuditRows)

SpecAudit == InitAudit /\ [][Next]_vars

\* SpecNumeric: the clinical counters
MaxNumericRows == 2

NumTexts == {<<"3">>, <<"0">>, <<"1","2">>, <<"-","2">>, <<"3",".","5">>, <<"a","b","c">>, <<"?">>, <<"4","x">>}

InitNumeric == InitFiles(RowsWith(<<"t","i","m","e","_","i","n","_","h","o","s","p","i","t","a","l">>, NumTexts) \cup RowsWith(<<"n","u","m","_","m","e","d","i","c","a","t","i","o","n","s">>, NumTexts), MaxNumericRows)

SpecNumeric == InitNumeric /\ [][Next]_vars

\* SpecMeds: the medication statuses of two medication columns
MaxMedRows == 1

MedTexts == {<<"N","o">>, <<"S","t","e","a","d","y">>, <<"U","p">>, <<"D","o","w","n">>, <<" ","U","p"," ">>, <<"s","t","e","a","d","y">>, <<"U","P">>, <<"M","a","y","b","e">>, <<"?">>, <<"0">>}

MedRows == {[BaseRow EXCEPT ![<<"i","n","s","u","l","i","n">>] = a, ![<<"g","l","y","b","u","r","i","d","e","-","m","e","t","f","o","r","m","i","n">>] = b] : a \in MedTexts, b \in {<<"N","o">>, <<"S","t","e","a","d","y">>, <<"M","a","y","b","e">>, <<"?">>}}

InitMeds == InitFiles(MedRows, MaxMedRows)

SpecMeds == InitMeds /\ [][Next]_vars

\* SpecReadmit: the readmission statuses
MaxReadmitRows == 2

ReadmitTexts == {<<"N","O">>, <<"<","3","0">>, <<">","3","0">>, <<" ","n","o"," ">>, <<"M","a","y","b","e">>, <<"7">>, <<"?">>}

InitReadmit == InitFiles(RowsWith(<<"r","e","a","d","m","i","t","t","e","d">>, ReadmitTexts), MaxReadmitRows)

SpecReadmit == InitReadmit /\ [][Next]_vars

\* SpecJoin: the lookup keys.  A table's keys are unique, repeated, missing once, or
\* missing twice; an encounter's id is in the table, not in it, or missing.
MaxJoinRows == 2

TypeBlocks == {TypeBlock, <<<<"a","d","m","i","s","s","i","o","n","_","t","y","p","e","_","i","d",",","d","e","s","c","r","i","p","t","i","o","n">>, <<"1",",","E","m","e","r","g","e","n","c","y">>, <<"1",",","U","r","g","e","n","t">>>>, <<<<"a","d","m","i","s","s","i","o","n","_","t","y","p","e","_","i","d",",","d","e","s","c","r","i","p","t","i","o","n">>, <<"1",",","E","m","e","r","g","e","n","c","y">>, <<",","N","o","t"," ","A","v","a","i","l","a","b","l","e">>>>, <<<<"a","d","m","i","s","s","i","o","n","_","t","y","p","e","_","i","d",",","d","e","s","c","r","i","p","t","i","o","n">>, <<",","N","o","t"," ","A","v","a","i","l","a","b","l","e">>, <<",","N","o","t"," ","M","a","p","p","e","d">>>>}

DispBlocks == {DispBlock, <<<<"d","i","s","c","h","a","r","g","e","_","d","i","s","p","o","s","i","t","i","o","n","_","i","d",",","d","e","s","c","r","i","p","t","i","o","n">>, <<"1",",","D","i","s","c","h","a","r","g","e","d"," ","t","o"," ","h","o","m","e">>, <<"1",",","E","x","p","i","r","e","d">>>>}

SourceBlocks == {SourceBlock, <<<<"a","d","m","i","s","s","i","o","n","_","s","o","u","r","c","e","_","i","d",",","d","e","s","c","r","i","p","t","i","o","n">>, <<"7",",","E","m","e","r","g","e","n","c","y"," ","R","o","o","m">>, <<"7",",","T","r","a","n","s","f","e","r">>>>}

\* one table of the three is varied at a time
JoinTables == {<<t, DispBlock, SourceBlock>> : t \in TypeBlocks} \cup {<<TypeBlock, d, SourceBlock>> : d \in DispBlocks} \cup {<<TypeBlock, DispBlock, s>> : s \in SourceBlocks}

JoinRows == RowsWith(<<"a","d","m","i","s","s","i","o","n","_","t","y","p","e","_","i","d">>, {<<"1">>, <<"3">>, <<"?">>}) \cup RowsWith(<<"d","i","s","c","h","a","r","g","e","_","d","i","s","p","o","s","i","t","i","o","n","_","i","d">>, {<<"2">>, <<"?">>})

InitJoin == /\ main_csv \in {CsvText(BaseHeader, r) : r \in SeqsUpTo(JoinRows, MaxJoinRows)}
            /\ lookup_csv \in {JoinBlocks(b, <<<<",">>>>) : b \in JoinTables}
            /\ InitRest

SpecJoin == InitJoin /\ [][Next]_vars

\* SpecRerun: the cleaned row set is transformed once more with the same lookup tables
MaxRerunRows == 2

RerunRows == {[BaseRow EXCEPT ![<<"i","n","s","u","l","i","n">>] = a, ![<<"g","l","y","b","u","r","i","d","e","-","m","e","t","f","o","r","m","i","n">>] = b] : a \in {<<"N","o">>, <<"U","p">>}, b \in {<<"N","o">>, <<"S","t","e","a","d","y">>}}

InitRerun == InitFiles(RerunRows, MaxRerunRows)

SpecRerun == InitRerun /\ [][NextRerun]_vars

---------------------------------------------------------------------------
\* Properties of main()

\* the files main writes before the summaries, in program order
SnapshotFiles == <<"diabetic_encounters_bronze.parquet", "ingestion_report.json", "data_quality_report.json", "diabetic_encounters_silver.parquet", "diabetic_encounters_silver.csv", "silver_export_report.json">>

\* the statement main is at: the one that failed, or the next one to run
Position == IF pc = "failed" THEN IndexOf(Stages, error.stage) ELSE IndexOf(Stages, pc)

\* the files of SnapshotFiles written by the statements before the k-th
SnapshotsBefore(k) == IF k <= 2 THEN 0 ELSE IF k <= 4 THEN k - 2 ELSE IF k <= 7 THEN 3 ELSE IF k <= 10 THEN k - 4 ELSE 6

IsPrefix(s, t) == Len(s) <= Len(t) /\ SubSeq(t, 1, Len(s)) = s

\* the state when main is at its k-th statement: what every earlier statement produced
\* is there, and nothing a later statement produces is
StageOrder(k) == /\ (pc = "failed") = (error # NoError)
                 /\ df_raw.none = (k <= 1)
                 /\ ingestion_report.some = (k > 1)
                 /\ dq_report.some = (k > 4)
                 /\ (dfs # <<>>) = (k > 5)
                 /\ df_silver.none = (k <= 6)
                 /\ (k < 10 => summaries = NoSummaries /\ written = SubSeq(SnapshotFiles, 1, SnapshotsBefore(k)))
                 /\ (k >= 10 => IsPrefix(SnapshotFiles, written) /\ IsPrefix(written, SnapshotFiles \o SummaryFiles))
                 /\ (k = 11 => written = SnapshotFiles \o SummaryFiles)

\* C7: the stages of main run in the fixed order ingestion, raw snapshot, audit, lookup
\* parsing, transformation, cleaned snapshot, aggregation: at every moment exactly the
\* results and files of the statements before the current one exist, in that order, and
\* after a failure nothing of a later statement exists (no cleaned snapshot without the
\* lookup tables and the cleaned row set, no summary table without the cleaned snapshot).
C7_StageOrder == StageOrder(Position)

\* a run that failed in the transformation: the raw snapshot and the two reports are
\* written, and nothing after them
C7_FailedInTransform == pc = "failed" /\ error.stage = "transform" /\ written = SubSeq(SnapshotFiles, 1, 3) /\ dfs # <<>>

\* C1: a lookup file whose number of segments is not three is refused by a check of the
\* segment count, before the tables are unpacked: the error of the run is raised at
\* that check.
C1_SegmentCountChecked == (error.stage = "parse_lookups" /\ Len(LookupBlocks(lookup_csv)) # 3) => error.at = "segment_count"

---------------------------------------------------------------------------
\* Properties of the audit

\* the bucket grammar [low-high) with integer low and high, each an optional minus
\* sign and digits
IsInteger(s) == IsDigits(s) \/ (s # <<>> /\ s[1] = "-" /\ IsDigits(Tail(s)))

IntegerValue(s) == IF s[1] = "-" THEN 0 - DigitsValue(Tail(s)) ELSE DigitsValue(s)

\* the places of the hyphen between low and high
BucketHyphens(text) == {k \in 3..(Len(text) - 2) : text[k] = "-" /\ IsInteger(SubSeq(text, 2, k - 1)) /\ IsInteger(SubSeq(text, k + 1, Len(text) - 1))}

IsBucket(text) == Len(text) >= 5 /\ text[1] = "[" /\ text[Len(text)] = ")" /\ BucketHyphens(text) # {}

BucketAt(text, k) == [low |-> Some(IntegerValue(SubSeq(text, 2, k - 1))), high |-> Some(IntegerValue(SubSeq(text, k + 1, Len(text) - 1)))]

BucketOf(text) == IF IsBucket(text) THEN BucketAt(text, CHOOSE k \in BucketHyphens(text) : TRUE) ELSE NoRange

\* the encounters of the raw row set whose age is there
AgesPresent == {i \in 1..Len(df_raw.rows) : ~isna(df_raw.rows[i][<<"a","g","e">>])}

OutOfRange(bucket) == bucket.low.some /\ (bucket.low.v < 0 \/ bucket.high.v > 120)

AgeAudit(report) == /\ \A i \in AgesPresent : parse_age_range(df_raw.rows[i][<<"a","g","e">>]) = BucketOf(df_raw.rows[i][<<"a","g","e">>].s)
                    /\ report.age_invalid_rows = Cardinality({i \in AgesPresent : ~IsBucket(df_raw.rows[i][<<"a","g","e">>].s)})
                    /\ report.age_out_of_0_120 = Cardinality({i \in AgesPresent : OutOfRange(BucketOf(df_raw.rows[i][<<"a","g","e">>].s))})

\* C10: every age that is there parses to (low, high) when it is a bucket [low-high) with
\* integer bounds and to (missing, missing) otherwise; the audit counts the ages that do
\* not parse in age_invalid_rows and the parsed buckets with a negative low bound or a
\* high bound above 120 in age_out_of_0_120, a bucket with a negative low bound included.
C10_AgeAudit == dq_report.some => AgeAudit(dq_report.v.logical_checks.age.v)

---------------------------------------------------------------------------
\* Properties of the transformation, field by field.  The lookup file of these runs
\* has unique keys, so the i-th cleaned row is the i-th raw row.

\* the columns of a list that the raw row set has
RawCols(cols) == {c \in Range(cols) : HasCol(df_raw, c)}

\* the integer a raw counter is when its text is an integer, missing otherwise
CounterOf(cell) == IF ~isna(cell) /\ IsInteger(cell.s) THEN IntCell(IntegerValue(cell.s)) ELSE NA

\* C9: each of the eight clinical counters that is there comes out as the integer its
\* text is, and as missing for a missing value, a text that is no number and a number
\* that is no integer (a decimal fraction); no such value ends the transformation.
C9_CountersCoerced == /\ ~(error.stage = "transform" /\ error.at = "numeric_cols")
                      /\ ~df_silver.none => \A i \in 1..Len(df_raw.rows) : \A c \in RawCols(numeric_cols) : df_silver.rows[i][c] = CounterOf(df_raw.rows[i][c])

\* the standardized status of a raw medication value, and the active flag of a status
StatusOf(cell) == IF isna(cell) THEN NA ELSE IF Strip(cell.s) = <<"N","o">> THEN Str(<<"n","o">>) ELSE IF Strip(cell.s) = <<"S","t","e","a","d","y">> THEN Str(<<"s","t","e","a","d","y">>) ELSE IF Strip(cell.s) = <<"U","p">> THEN Str(<<"i","n","c","r","e","a","s","e","d">>) ELSE IF Strip(cell.s) = <<"D","o","w","n">> THEN Str(<<"d","e","c","r","e","a","s","e","d">>) ELSE NA

FlagOf(status) == IF status \in {Str(<<"s","t","e","a","d","y">>), Str(<<"i","n","c","r","e","a","s","e","d">>), Str(<<"d","e","c","r","e","a","s","e","d">>)} THEN IntCell(1) ELSE IF status = Str(<<"n","o">>) THEN IntCell(0) ELSE NA

\* the medication columns of the i-th raw row that are active
ActiveMeds(i) == {c \in RawCols(med_cols) : FlagOf(StatusOf(df_raw.rows[i][c])) = IntCell(1)}

MedicationsOfRow(raw, clean, i) == /\ \A c \in RawCols(med_cols) : clean[to_snake(c \o <<"_","c","l","e","a","n">>)] = StatusOf(raw[c]) /\ clean[to_snake(c \o <<"_","c","l","e","a","n","_","a","c","t","i","v","e","_","f","l","a","g">>)] = FlagOf(StatusOf(raw[c]))
                                   /\ clean[<<"n","u","m","_","a","c","t","i","v","e","_","d","i","a","b","e","t","e","s","_","m","e","d","s">>] = IntCell(Cardinality(ActiveMeds(i)))
                                   /\ clean[<<"n","u","m","_","a","c","t","i","v","e","_","d","i","a","b","e","t","e","s","_","m","e","d","s">>].n \in 0..Cardinality(RawCols(med_cols))

\* C8: for every row and every medication column that is there, the standardized status
\* is no, steady, increased or decreased when the trimmed value is exactly No, Steady, Up
\* or Down and missing for every other value; the active flag is 1 for steady, increased
\* and decreased, 0 for no and missing for missing; and num_active_diabetes_meds is the
\* number of the row's medication columns whose flag is 1, between 0 and their number.
C8_Medications == ~df_silver.none => \A i \in 1..Len(df_raw.rows) : MedicationsOfRow(df_raw.rows[i], df_silver.rows[i], i)

\* a cleaned row whose insulin was " Up " and whose glyburide-metformin was "Maybe":
\* one active medication, the unknown status missing
C8_OneActiveOneUnknown == ~df_silver.none /\ \E i \in 1..Len(df_raw.rows) : df_raw.rows[i][<<"i","n","s","u","l","i","n">>] = Str(<<" ","U","p"," ">>) /\ df_raw.rows[i][<<"g","l","y","b","u","r","i","d","e","-","m","e","t","f","o","r","m","i","n">>] = Str(<<"M","a","y","b","e">>) /\ df_silver.rows[i][<<"n","u","m","_","a","c","t","i","v","e","_","d","i","a","b","e","t","e","s","_","m","e","d","s">>] = IntCell(1) /\ isna(df_silver.rows[i][<<"g","l","y","b","u","r","i","d","e","_","m","e","t","f","o","r","m","i","n","_","c","l","e","a","n">>])

\* the trimmed, upper-cased readmission status of a raw value
StatusText(cell) == Upper(Strip(cell.s))

\* the flags (any, within 30 days) of a raw readmission value
AnyFlagOf(cell) == IF isna(cell) THEN NA ELSE IF StatusText(cell) = <<"N","O">> THEN IntCell(0) ELSE IF StatusText(cell) \in {<<"<","3","0">>, <<">","3","0">>} THEN IntCell(1) ELSE NA

Within30FlagOf(cell) == IF isna(cell) THEN NA ELSE IF StatusText(cell) \in {<<"N","O">>, <<">","3","0">>} THEN IntCell(0) ELSE IF StatusText(cell) = <<"<","3","0">> THEN IntCell(1) ELSE NA

ReadmittedOfRow(raw, clean) == /\ clean[<<"r","e","a","d","m","i","t","t","e","d","_","r","a","w","_","c","l","e","a","n">>] = (IF isna(raw[<<"r","e","a","d","m","i","t","t","e","d">>]) THEN NA ELSE Str(StatusText(raw[<<"r","e","a","d","m","i","t","t","e","d">>])))
                               /\ clean[<<"r","e","a","d","m","i","t","t","e","d","_","a","n","y","_","f","l","a","g">>] = AnyFlagOf(raw[<<"r","e","a","d","m","i","t","t","e","d">>])
                               /\ clean[<<"r","e","a","d","m","i","t","t","e","d","_","3","0","d","_","f","l","a","g">>] = Within30FlagOf(raw[<<"r","e","a","d","m","i","t","t","e","d">>])

\* C6: for every row the readmission value is trimmed and upper-cased and the flags
\* (any, within 30 days) are (0,0) for NO, (1,1) for <30 and (1,0) for >30; for a missing
\* value and for any other text both flags are missing, and the transformation does not
\* raise.
C6_ReadmittedFlags == /\ ~(error.stage = "transform" /\ error.at = "encode_readmitted")
                      /\ ~df_silver.none => \A i \in 1..Len(df_raw.rows) : ReadmittedOfRow(df_raw.rows[i], df_silver.rows[i])

\* the id columns of the three lookup tables, in the order of the tables
LookupKeys == <<<<"a","d","m","i","s","s","i","o","n","_","t","y","p","e","_","i","d">>, <<"d","i","s","c","h","a","r","g","e","_","d","i","s","p","o","s","i","t","i","o","n","_","i","d">>, <<"a","d","m","i","s","s","i","o","n","_","s","o","u","r","c","e","_","i","d">>>>

\* no two rows of the k-th lookup table have the same key
UniqueKeys(k) == \A i \in 1..Len(dfs[k].rows) : \A j \in 1..Len(dfs[k].rows) : i # j => dfs[k].rows[i][LookupKeys[k]] # dfs[k].rows[j][LookupKeys[k]]

\* the cleaned rows are the raw rows, one for one and in order (by their ids)
RowsKept == /\ Len(df_silver.rows) = Len(df_raw.rows)
            /\ \A i \in 1..Len(df_raw.rows) : \A k \in 1..3 : df_silver.rows[i][LookupKeys[k]] = df_raw.rows[i][LookupKeys[k]]

\* C3: when the id column of each of the three lookup tables has unique keys, the cleaned
\* row set has exactly the rows of the raw row set: a row whose id is in no table, or is
\* missing, is kept, and no row is repeated by the three joins.
C3_RowCountKept == (~df_silver.none /\ \A k \in 1..3 : UniqueKeys(k)) => RowsKept

\* two raw rows, one with an admission type no table has and one without an admission
\* type, joined with tables of unique keys: two cleaned rows without a description
C3_UnmatchedAndMissingKept == /\ ~df_silver.none /\ \A k \in 1..3 : UniqueKeys(k)
                              /\ Len(df_raw.rows) = 2 /\ df_raw.rows[1][<<"a","d","m","i","s","s","i","o","n","_","t","y","p","e","_","i","d">>] = Str(<<"3">>) /\ isna(df_raw.rows[2][<<"a","d","m","i","s","s","i","o","n","_","t","y","p","e","_","i","d">>])
                              /\ Len(df_silver.rows) = 2 /\ isna(df_silver.rows[1][<<"a","d","m","i","s","s","i","o","n","_","t","y","p","e","_","d","e","s","c">>])

\* C2: a lookup table with a repeated key makes the transformation raise: no cleaned
\* row set is returned from such a table, and none has more rows than the raw row set.
C2_DuplicateKeysRaised == ~df_silver.none => (\A k \in 1..3 : UniqueKeys(k)) /\ Len(df_silver.rows) <= Len(df_raw.rows)

\* str.endswith(suffix)
EndsWith(s, suffix) == Len(s) >= Len(suffix) /\ SubSeq(s, Len(s) - Len(suffix) + 1, Len(s)) = suffix

\* the derived fields of the cleaned row set
IsDerived(c) == EndsWith(c, <<"_","c","l","e","a","n">>) \/ EndsWith(c, <<"_","a","c","t","i","v","e","_","f","l","a","g">>) \/ EndsWith(c, <<"_","d","e","s","c">>) \/ c \in {<<"d","i","a","g","_","1","_","g","r","o","u","p">>, <<"n","u","m","_","a","c","t","i","v","e","_","d","i","a","b","e","t","e","s","_","m","e","d","s">>, <<"g","e","n","d","e","r","_","f","e","m","a","l","e","_","f","l","a","g">>, <<"r","e","a","d","m","i","t","t","e","d","_","a","n","y","_","f","l","a","g">>, <<"r","e","a","d","m","i","t","t","e","d","_","3","0","d","_","f","l","a","g">>}

\* the column c of the row set again is the column c of the row set before
SameColumn(before, again, c) == HasCol(again, c) /\ Len(again.rows) = Len(before.rows) /\ \A i \in 1..Len(before.rows) : again.rows[i][c] = before.rows[i][c]

\* C4: the transformation applied to its own output with the same lookup tables
\* completes, and every derived field of every row has the same name and value after it.
C4_RerunKeepsDerived == df_again.at # "not run" => df_again.err = "" /\ \A c \in {d \in Range(df_silver.columns) : IsDerived(d)} : SameColumn(df_silver, df_again.df, c)

---------------------------------------------------------------------------
\* Properties of the summaries

\* a rate of the summaries is num / den (both without a value when den = 0)
RateIs(rate, num, den) == (rate.den = 0) = (den = 0) /\ rate.num * den = num * rate.den

\* among the rows of the cleaned row set: those whose status is there, those of them
\* that are readmitted, and those readmitted within 30 days
StatusPresent(rows) == {i \in rows : ~isna(df_silver.rows[i][<<"r","e","a","d","m","i","t","t","e","d">>])}

Readmitted(rows) == {i \in StatusPresent(rows) : StatusText(df_silver.rows[i][<<"r","e","a","d","m","i","t","t","e","d">>]) # <<"N","O">>}

ReadmittedWithin30(rows) == {i \in StatusPresent(rows) : StatusText(df_silver.rows[i][<<"r","e","a","d","m","i","t","t","e","d">>]) = <<"<","3","0">>}

\* the rows of the group of a summary by some columns
RowsOfGroup(by, key) == {i \in 1..Len(df_silver.rows) : \A k \in 1..Len(by) : df_silver.rows[i][by[k]] = key[k]}

GroupRatesOverPresent(table, by) == \A g \in 1..Len(table) : RateIs(table[g].readmission_rate, Cardinality(Readmitted(RowsOfGroup(by, table[g].key))), Cardinality(StatusPresent(RowsOfGroup(by, table[g].key))))

RatesOverPresent(t) == /\ RateIs(t.overall.v.readmission_rate_any, Cardinality(Readmitted(1..Len(df_silver.rows))), Cardinality(StatusPresent(1..Len(df_silver.rows))))
                       /\ RateIs(t.overall.v.readmission_rate_30d, Cardinality(ReadmittedWithin30(1..Len(df_silver.rows))), Cardinality(StatusPresent(1..Len(df_silver.rows))))
                       /\ GroupRatesOverPresent(t.by_age.v, <<<<"a","g","e">>>>)
                       /\ GroupRatesOverPresent(t.by_insulin.v, <<<<"i","n","s","u","l","i","n">>>>)
                       /\ GroupRatesOverPresent(t.race_gender.v, <<<<"r","a","c","e">>, <<"g","e","n","d","e","r">>>>)

\* C5: every readmission rate of the summaries is a mean over the rows whose status is
\* there: the rows readmitted (within 30 days, for the 30-day rate) over the rows with a
\* status, the rows without one in neither.
C5_RatesOverPresent == pc = "done" => RatesOverPresent(summaries)

====
